---- MODULE Spec2Model ----
(***************************************************************************)
(* Model of cybox.core.object (Object, RelatedObject, the identity cache   *)
(* hooks) and of the construction checks exercised by                      *)
(* stix2/test/v21/test_grouping.py.                                        *)
(*                                                                         *)
(* Object instances live in `heap` (a sequence, index = object identity),  *)
(* ObjectProperties instances live in `props` (payload and owner          *)
(* back-pointer), `cache` is the process-wide identity cache, `reg` the     *)
(* record of the identifiers assigned since the last clear.  `thr` and     *)
(* `got` are the threads of the concurrent specification (where each       *)
(* constructor is in its code, which entity each last took from the        *)
(* cache); `grp` is the outcome of the last Grouping construction.         *)
(* `_EXTERNAL_CLASSES` is the external-type registry, `registered` the     *)
(* calls of add_external_class so far and `resolved` the outcome of the    *)
(* last entity_class lookup; `recoverable` remembers the reference-form    *)
(* related objects that add_related built from an owned payload.           *)
(***************************************************************************)
EXTENDS Integers, Sequences, FiniteSets, TLC

VARIABLES heap, props, cache, reg, thr, got, grp,
          _EXTERNAL_CLASSES, registered, resolved, recoverable

vars == <<heap, props, cache, reg, thr, got, grp,
          _EXTERNAL_CLASSES, registered, resolved, recoverable>>

(* ------------------------------ bounds -------------------------------- *)
MaxObjs == 2
MaxProps == 1

(* ------------------------------ values -------------------------------- *)
None == "None"
NoProps == 0
NoObj == 0
\* a value handed to add_related that is not an ObjectProperties
NotObjectProperties == 0 - 1

UserIds == {"X"}
Relationships == {"Contains"}
Payloads == {"FileObjectType"}

Objs == 1..Len(heap)
Props == 1..Len(props)

OptId == UserIds \cup {None}
OptRel == Relationships \cup {None}

\* idgen.create_id(prefix): a fresh identifier for the instance being built
create_id(i) == "example:Object-" \o ToString(i)

\* Entity.__init__ of mixbox: every field unset. `arg` remembers the properties
\* argument the instance was built from, `live` that the constructor returned
\* it to its caller, has_related that related_objects holds a list (not None).
BlankEntity(kind, inline) ==
    [kind |-> kind, id_ |-> None, idref |-> None, properties |-> NoProps,
     relationship |-> None, related_objects |-> <<>>, has_related |-> FALSE,
     inline |-> inline, arg |-> NoProps, live |-> FALSE]

Store(h, p, c) == [heap |-> h, props |-> p, cache |-> c]

Cur == Store(heap, props, cache)

(* --------------------------- identity cache --------------------------- *)
\* cybox.utils.cache_put: register under value.id_, last write wins
cache_put(s, i) ==
    [s EXCEPT !.cache = (s.heap[i].id_ :> i) @@ s.cache]

\* cybox.utils.cache_get: the registered instance, or a miss
CacheMiss == 0 - 2
cache_get(c, id) == IF id \in DOMAIN c THEN c[id] ELSE CacheMiss

\* cybox.utils.cache_clear
cache_clear(s) == [s EXCEPT !.cache = <<>>]

(* ------------------------------ hooks --------------------------------- *)
\* fault variant of _cache_object: an identifier already registered is kept
_cache_object_first_write(s, i) ==
    IF s.heap[i].id_ # None /\ s.heap[i].id_ \notin DOMAIN s.cache
    THEN cache_put(s, i) ELSE s

\* _cache_object, lines 44-46
_cache_object(s, i) ==
    IF s.heap[i].id_ # None THEN cache_put(s, i) ELSE s

\* fault variant of _modify_properties_parent: lines 38-39 are missing
_modify_properties_parent_always(s, i) ==
    IF s.heap[i].properties # NoProps
    THEN [s EXCEPT !.props[s.heap[i].properties].parent = i]
    ELSE s

\* _modify_properties_parent, lines 37-41
_modify_properties_parent(s, i) ==
    IF s.heap[i].kind = "RelatedObject" /\ ~s.heap[i].inline THEN s
    ELSE IF s.heap[i].properties # NoProps
         THEN [s EXCEPT !.props[s.heap[i].properties].parent = i]
         ELSE s

(* --------------------------- field setters ---------------------------- *)
\* id_ = fields.IdField("id", postset_hook=_cache_object)
set_id_(s, i, v) == _cache_object([s EXCEPT !.heap[i].id_ = v], i)

\* idref = fields.IdrefField("idref")
set_idref(s, i, v) == [s EXCEPT !.heap[i].idref = v]

\* properties = fields.TypedField(..., postset_hook=_modify_properties_parent)
set_properties(s, i, v) ==
    _modify_properties_parent([s EXCEPT !.heap[i].properties = v], i)

\* related_objects = fields.TypedField("Related_Objects", ...)
set_related_objects(s, i, v, has) ==
    [s EXCEPT !.heap[i].related_objects = v, !.heap[i].has_related = has]

\* relationship = VocabField("Relationship", Relationship)
set_relationship(s, i, v) == [s EXCEPT !.heap[i].relationship = v]

(* ---------------------------- constructors ---------------------------- *)
\* ObjectProperties(): a payload nobody owns yet (parent = None)
NewProps(s, payload) ==
    [s EXCEPT !.props = Append(s.props, [parent |-> NoObj, payload |-> payload])]

\* object allocation followed by entities.Entity.__init__
Alloc(s, kind, inline) ==
    [s EXCEPT !.heap = Append(s.heap, BlankEntity(kind, inline))]

\* Object.__init__, line 97
Object_init_id(s, i, id_) ==
    set_id_(s, i, IF id_ # None THEN id_ ELSE create_id(i))

\* Object.__init__, lines 90-100
Object__init__(s, i, properties, id_, idref) ==
    LET s1 == Object_init_id(s, i, id_)
        s2 == set_idref(s1, i, idref)
        s3 == set_properties(s2, i, properties)
    IN  set_related_objects(s3, i, <<>>, TRUE)

\* fault variant of RelatedObject_to_reference: line 132 is missing
RelatedObject_to_reference_keep_payload(s, i) ==
    IF ~s.heap[i].inline /\ s.heap[i].properties # NoProps
    THEN LET o == s.props[s.heap[i].properties].parent
         IN  IF o = NoObj THEN [s |-> s, ok |-> FALSE]
             ELSE [s |-> set_idref(s, i, s.heap[o].id_), ok |-> TRUE]
    ELSE [s |-> s, ok |-> TRUE]

\* RelatedObject.__init__, lines 130-132; ok = FALSE is the AttributeError of
\* reading id_ from a payload whose parent is None
RelatedObject_to_reference(s, i) ==
    IF ~s.heap[i].inline /\ s.heap[i].properties # NoProps
    THEN LET o == s.props[s.heap[i].properties].parent
         IN  IF o = NoObj THEN [s |-> s, ok |-> FALSE]
             ELSE [s |-> set_properties(set_idref(s, i, s.heap[o].id_), i, NoProps),
                   ok |-> TRUE]
    ELSE [s |-> s, ok |-> TRUE]

\* RelatedObject.__init__, lines 123-132 (the instance i is already allocated
\* with _inline = kwargs.pop('inline', True))
RelatedObject__init__(s, i, properties, id_, idref, relationship) ==
    LET s1 == Object__init__(s, i, properties, id_, idref)
        s2 == set_relationship(s1, i, relationship)
    IN  RelatedObject_to_reference(s2, i)

(* ------------------------------ parsing ------------------------------- *)
\* the mappings handed to from_dict: every key is optional
Dicts ==
    [id : OptId, idref : OptId, properties : Payloads \cup {None},
     relationship : OptRel]

EmptyDict(d) ==
    d.id = None /\ d.idref = None /\ d.properties = None /\ d.relationship = None

\* entities.Entity.from_dict as called at line 185: entity = cls(), then every
\* typed field is set from the mapping (absent key -> None), in attribute-name
\* order: id_, idref, properties, related_objects, relationship
Entity_from_dict(s, i, d) ==
    LET s0 == RelatedObject__init__(Alloc(s, "RelatedObject", TRUE), i,
                                    NoProps, None, None, None).s
        s1 == set_id_(s0, i, d.id)
        s2 == set_idref(s1, i, d.idref)
        s3 == IF d.properties = None THEN set_properties(s2, i, NoProps)
              ELSE set_properties(NewProps(s2, d.properties), i, Len(s2.props) + 1)
        s4 == set_related_objects(s3, i, <<>>, FALSE)
    IN  set_relationship(s4, i, d.relationship)

\* RelatedObject.from_dict, lines 185-190
RelatedObject_from_dict(s, i, d) ==
    LET s1 == Entity_from_dict(s, i, d)
    IN  IF s1.heap[i].idref = None /\ s1.heap[i].properties # NoProps
        THEN [s1 EXCEPT !.heap[i].inline = TRUE]
        ELSE s1

(* --------------------------- serialization ---------------------------- *)
Opt(key, present, val) == IF present THEN key :> val ELSE <<>>

RECURSIVE to_dict(_, _)

\* entities.Entity.to_dict: every field that is set, none that is unset
Entity_to_dict(s, i) ==
    LET e == s.heap[i]
    IN  Opt("id", e.id_ # None, e.id_)
        @@ Opt("idref", e.idref # None, e.idref)
        @@ Opt("properties", e.properties # NoProps,
               IF e.properties # NoProps THEN s.props[e.properties].payload ELSE None)
        @@ Opt("relationship", e.relationship # None, e.relationship)
        @@ Opt("related_objects", e.related_objects # <<>>,
               [k \in DOMAIN e.related_objects |-> to_dict(s, e.related_objects[k])])

\* fault variant of RelatedObject_to_dict: the reference form also emits id
RelatedObject_to_dict_mixed(s, i) ==
    LET e == s.heap[i]
    IN  IF e.inline THEN Entity_to_dict(s, i)
        ELSE ("idref" :> e.idref) @@ Opt("id", e.id_ # None, e.id_)
             @@ Opt("relationship", e.relationship # None, e.relationship)

\* RelatedObject.to_dict, lines 157-166
RelatedObject_to_dict(s, i) ==
    LET e == s.heap[i]
    IN  IF e.inline THEN Entity_to_dict(s, i)
        ELSE ("idref" :> e.idref)
             @@ Opt("relationship", e.relationship # None, e.relationship)

to_dict(s, i) ==
    IF s.heap[i].kind = "RelatedObject" THEN RelatedObject_to_dict(s, i)
    ELSE Entity_to_dict(s, i)

(* ------------------------ parsing a mapping --------------------------- *)
\* cls_dict.get(key): the value, or None for an absent key
Get(m, key) == IF key \in DOMAIN m THEN m[key] ELSE None

RECURSIVE from_mapping(_, _, _)
RECURSIVE from_list(_, _)

\* RelatedObjects.from_dict (line 198, multiple=True): every element of the
\* list is parsed by RelatedObject.from_dict, in order
from_list(s, list) ==
    IF list = <<>> THEN [s |-> s, kids |-> <<>>]
    ELSE LET r == from_mapping(s, "RelatedObject", Head(list))
             rest == from_list(r.s, Tail(list))
         IN  [s |-> rest.s, kids |-> <<r.self>> \o rest.kids]

\* from_dict of Object and of RelatedObject (lines 181-190) applied to an emitted
\* mapping: `if not cls_dict: return None`, then entity = cls() and every typed
\* field is set from the mapping (id_, idref, properties, related_objects,
\* relationship), then lines 187-188
from_mapping(s, kind, m) ==
    IF DOMAIN m = {} THEN [s |-> s, self |-> NoObj]
    ELSE LET i == Len(s.heap) + 1
             s0 == IF kind = "RelatedObject"
                   THEN RelatedObject__init__(Alloc(s, kind, TRUE), i,
                                              NoProps, None, None, None).s
                   ELSE Object__init__(Alloc(s, kind, TRUE), i, NoProps, None, None)
             s1 == set_id_(s0, i, Get(m, "id"))
             s2 == set_idref(s1, i, Get(m, "idref"))
             s3 == IF "properties" \notin DOMAIN m THEN set_properties(s2, i, NoProps)
                   ELSE set_properties(NewProps(s2, m["properties"]), i,
                                       Len(s2.props) + 1)
             s4 == IF "related_objects" \notin DOMAIN m
                   THEN set_related_objects(s3, i, <<>>, FALSE)
                   ELSE LET r == from_list(s3, m["related_objects"])
                        IN  set_related_objects(r.s, i, r.kids, TRUE)
             s5 == IF kind = "RelatedObject"
                   THEN set_relationship(s4, i, Get(m, "relationship"))
                   ELSE s4
             s6 == IF kind = "RelatedObject" /\ s5.heap[i].idref = None
                      /\ s5.heap[i].properties # NoProps
                   THEN [s5 EXCEPT !.heap[i].inline = TRUE]
                   ELSE s5
         IN  [s |-> [s6 EXCEPT !.heap[i].live = TRUE], self |-> i]

(* ---------------------------- resolution ------------------------------ *)
UnresolvedReference == 0 - 3

\* fault variant of get_properties: the lookup uses id_ instead of idref
get_properties_own_id(s, i) ==
    LET e == s.heap[i]
    IN  IF e.properties # NoProps THEN e.properties
        ELSE IF e.idref # None
             THEN IF cache_get(s.cache, e.id_) = CacheMiss THEN UnresolvedReference
                  ELSE s.heap[cache_get(s.cache, e.id_)].properties
             ELSE NoProps

\* RelatedObject.get_properties, lines 138-144
get_properties(s, i) ==
    LET e == s.heap[i]
    IN  IF e.properties # NoProps THEN e.properties
        ELSE IF e.idref # None
             THEN IF cache_get(s.cache, e.idref) = CacheMiss THEN UnresolvedReference
                  ELSE s.heap[cache_get(s.cache, e.idref)].properties
             ELSE NoProps

(* ------------------------------ actions ------------------------------- *)
Commit(s) ==
    /\ heap' = s.heap
    /\ props' = s.props
    /\ cache' = s.cache

\* the instance is handed to the caller; properties was the argument
Return(s, i, properties) ==
    [s EXCEPT !.heap[i].live = TRUE, !.heap[i].arg = properties]

\* the constructor raised: the caller gets no instance
Raise(s, i, properties) ==
    [s EXCEPT !.heap[i].arg = properties]

Threads == {"A", "B"}

Idle ==
    [pc |-> "idle", self |-> NoObj, properties |-> NoProps, id_ |-> None,
     relationship |-> None]

\* a Grouping call that has not run yet (order: the keywords in the order the
\* caller wrote them)
Pending(kwargs) ==
    [kwargs |-> kwargs, order |-> <<>>, done |-> FALSE, ok |-> FALSE,
     errors |-> {}, instance |-> <<>>]

NoGrouping == Pending(<<>>)

(* ----------------------- external-type registry ----------------------- *)
MaxRegs == 3

XsiTypes == {"AType", "BType", "CType"}
Klasses == {"KlassA", "KlassB"}

\* add_external_class(klass, xsi_type), line 29
add_external_class(classes, klass, xsi_type) ==
    (xsi_type :> klass) @@ classes

\* how a caller reaches entity_class: on the class ExternalTypeFactory itself,
\* which is what line 83 hands to the field as its factory, or on an instance
Receivers == {"class", "instance"}

NoLookup ==
    [called |-> FALSE, key |-> None, receiver |-> None, raised |-> None,
     names |-> None, value |-> None, at |-> 0]

\* the outcome of a call of entity_class (at: how many registrations had been
\* made when it was called)
Outcome(key, receiver, raised, names, value) ==
    [called |-> TRUE, key |-> key, receiver |-> receiver, raised |-> raised,
     names |-> names, value |-> value, at |-> 0]

\* ExternalTypeFactory.entity_class, lines 33-34: a plain function of two
\* positional parameters (cls, key), not declared a classmethod.  Called on an
\* instance, the instance is bound to cls and the argument to key; called on
\* the class, the one argument is bound to cls and key is missing, which is a
\* TypeError naming the parameter.  The lookup of line 34 raises KeyError(key)
\* for a key that is not in the registry.
entity_class(classes, receiver, key) ==
    IF receiver = "class"
    THEN Outcome(key, receiver, "TypeError", "key", None)
    ELSE IF key \in DOMAIN classes
         THEN Outcome(key, receiver, None, None, classes[key])
         ELSE Outcome(key, receiver, "KeyError", key, None)

HeapInit ==
    /\ heap = <<>>
    /\ props = <<>>
    /\ cache = <<>>
    /\ reg = <<>>
    /\ thr = [t \in Threads |-> Idle]
    /\ got = [t \in Threads |-> NoObj]

\* line 16: the registry is empty when the module is imported
RegistryInit ==
    /\ _EXTERNAL_CLASSES = <<>>
    /\ registered = <<>>
    /\ resolved = NoLookup
    /\ recoverable = {}

Init ==
    /\ HeapInit
    /\ RegistryInit
    /\ grp = NoGrouping

\* the caller builds an ObjectProperties
CreateProps ==
    /\ Len(props) < MaxProps
    /\ \E payload \in Payloads : Commit(NewProps(Cur, payload))
    /\ UNCHANGED <<reg, thr, got, grp, _EXTERNAL_CLASSES, registered, resolved, recoverable>>

\* Object(properties, id_)
NewObject ==
    /\ Len(heap) < MaxObjs
    /\ \E properties \in Props \cup {NoProps}, id_ \in OptId :
         LET i == Len(heap) + 1
             s == Object__init__(Alloc(Cur, "Object", TRUE), i, properties, id_, None)
         IN  /\ Commit(Return(s, i, properties))
             /\ reg' = (s.heap[i].id_ :> i) @@ reg
    /\ UNCHANGED <<thr, got, grp, _EXTERNAL_CLASSES, registered, resolved, recoverable>>

\* RelatedObject(properties, idref=..., relationship=..., inline=...)
NewRelatedObject ==
    /\ Len(heap) < MaxObjs
    /\ \E properties \in Props \cup {NoProps}, idref \in OptId,
          relationship \in OptRel, inline \in BOOLEAN :
         LET i == Len(heap) + 1
             r == RelatedObject__init__(Alloc(Cur, "RelatedObject", inline), i,
                                        properties, None, idref, relationship)
         IN  /\ Commit(IF r.ok THEN Return(r.s, i, properties)
                       ELSE Raise(r.s, i, properties))
             /\ reg' = (r.s.heap[i].id_ :> i) @@ reg
    /\ UNCHANGED <<thr, got, grp, _EXTERNAL_CLASSES, registered, resolved, recoverable>>

\* fault variant of add_related: the new element goes in front
add_related_prepend(s, o, related, relationship, inline) ==
    IF related = NotObjectProperties THEN [s |-> s, ok |-> FALSE, self |-> NoObj]
    ELSE LET i == Len(s.heap) + 1
             r == RelatedObject__init__(Alloc(s, "RelatedObject", inline), i,
                                        related, None, None, relationship)
         IN  IF ~r.ok THEN [s |-> Raise(r.s, i, related), ok |-> FALSE, self |-> i]
             ELSE [s |-> [Return(r.s, i, related) EXCEPT
                            !.heap[o].related_objects = <<i>> \o @],
                   ok |-> TRUE, self |-> i]

\* Object.add_related, lines 110-114
add_related(s, o, related, relationship, inline) ==
    IF related = NotObjectProperties THEN [s |-> s, ok |-> FALSE, self |-> NoObj]
    ELSE LET i == Len(s.heap) + 1
             r == RelatedObject__init__(Alloc(s, "RelatedObject", inline), i,
                                        related, None, None, relationship)
         IN  IF ~r.ok THEN [s |-> Raise(r.s, i, related), ok |-> FALSE, self |-> i]
             ELSE [s |-> [Return(r.s, i, related) EXCEPT
                            !.heap[o].related_objects = Append(@, i)],
                   ok |-> TRUE, self |-> i]

\* owner.add_related(related, relationship, inline) on an owner the caller
\* holds
AddRelatedCall(o, related, relationship, inline) ==
    /\ UNCHANGED <<thr, got, grp, _EXTERNAL_CLASSES, registered, resolved>>
    /\ heap[o].live /\ heap[o].has_related
    /\ LET r == add_related(Cur, o, related, relationship, inline)
       IN  /\ Commit(r.s)
           /\ reg' = IF r.self = NoObj THEN reg
                     ELSE (r.s.heap[r.self].id_ :> r.self) @@ reg

AddRelated ==
    \E o \in Objs, related \in Props \cup {NotObjectProperties},
       relationship \in Relationships, inline \in BOOLEAN :
         /\ related # NotObjectProperties => Len(heap) < MaxObjs
         /\ AddRelatedCall(o, related, relationship, inline)
         /\ UNCHANGED recoverable

\* RelatedObject.from_dict(cls_dict), lines 181-190
FromDict ==
    /\ UNCHANGED <<thr, got, grp, _EXTERNAL_CLASSES, registered, resolved, recoverable>>
    /\ \E d \in Dicts :
         IF EmptyDict(d)
         THEN UNCHANGED <<heap, props, cache, reg>>
         ELSE /\ Len(heap) < MaxObjs
              /\ d.properties # None => Len(props) < MaxProps
              /\ LET i == Len(heap) + 1
                     s == RelatedObject_from_dict(Cur, i, d)
                 IN  /\ Commit(Return(s, i, NoProps))
                     /\ reg' = (IF d.id # None THEN d.id :> i ELSE <<>>)
                               @@ (create_id(i) :> i) @@ reg

\* cybox.utils.caches.cache_clear()
CacheClear ==
    /\ Commit(cache_clear(Cur))
    /\ reg' = <<>>
    /\ UNCHANGED <<thr, got, grp, _EXTERNAL_CLASSES, registered, resolved, recoverable>>

Next ==
    \/ CreateProps
    \/ NewObject
    \/ NewRelatedObject
    \/ AddRelated
    \/ FromDict
    \/ CacheClear

Spec == Init /\ [][Next]_vars

(* ================= concurrent construction and lookup ================= *)
\* Several threads run the constructors statement by statement (the
\* interpreter may switch threads between any two statements) and look
\* entities up in the shared cache.
At(t, label) == thr[t].pc = label

Goto(t, label) == thr' = [thr EXCEPT ![t].pc = label]

\* Object(...) / RelatedObject(...) is called: lines 124-127 and 90
T_Call(t) ==
    /\ At(t, "idle")
    /\ Len(heap) < MaxObjs
    /\ \E kind \in {"Object", "RelatedObject"}, properties \in Props \cup {NoProps},
          id_ \in OptId, relationship \in OptRel, inline \in BOOLEAN :
         /\ kind = "Object" => (inline /\ relationship = None)
         /\ Commit(Alloc(Cur, kind, inline))
         /\ thr' = [thr EXCEPT ![t] =
                      [pc |-> "L97", self |-> Len(heap) + 1, properties |-> properties,
                       id_ |-> id_, relationship |-> relationship]]
    /\ UNCHANGED <<reg, got, grp, _EXTERNAL_CLASSES, registered, resolved, recoverable>>

\* line 97: self.id_ = id_ or idgen.create_id(prefix=prefix)
T_L97(t) ==
    /\ At(t, "L97")
    /\ LET s == Object_init_id(Cur, thr[t].self, thr[t].id_)
       IN  /\ Commit(s)
           /\ reg' = (s.heap[thr[t].self].id_ :> thr[t].self) @@ reg
    /\ Goto(t, "L98")
    /\ UNCHANGED <<got, grp, _EXTERNAL_CLASSES, registered, resolved, recoverable>>

\* line 98: self.idref = idref
T_L98(t) ==
    /\ At(t, "L98")
    /\ Commit(set_idref(Cur, thr[t].self, None))
    /\ Goto(t, "L99")
    /\ UNCHANGED <<reg, got, grp, _EXTERNAL_CLASSES, registered, resolved, recoverable>>

\* line 99: self.properties = properties
T_L99(t) ==
    /\ At(t, "L99")
    /\ Commit(set_properties(Cur, thr[t].self, thr[t].properties))
    /\ Goto(t, "L100")
    /\ UNCHANGED <<reg, got, grp, _EXTERNAL_CLASSES, registered, resolved, recoverable>>

\* line 100: self.related_objects = RelatedObjects(); Object(...) returns
T_L100(t) ==
    /\ At(t, "L100")
    /\ LET s == set_related_objects(Cur, thr[t].self, <<>>, TRUE)
       IN  IF heap[thr[t].self].kind = "Object"
           THEN /\ Commit(Return(s, thr[t].self, thr[t].properties))
                /\ thr' = [thr EXCEPT ![t] = Idle]
           ELSE /\ Commit(s)
                /\ Goto(t, "L128")
    /\ UNCHANGED <<reg, got, grp, _EXTERNAL_CLASSES, registered, resolved, recoverable>>

\* line 128: self.relationship = relationship
T_L128(t) ==
    /\ At(t, "L128")
    /\ Commit(set_relationship(Cur, thr[t].self, thr[t].relationship))
    /\ Goto(t, "L130")
    /\ UNCHANGED <<reg, got, grp, _EXTERNAL_CLASSES, registered, resolved, recoverable>>

\* lines 130-132; RelatedObject(...) returns or raises
T_L130(t) ==
    /\ At(t, "L130")
    /\ LET r == RelatedObject_to_reference(Cur, thr[t].self)
       IN  Commit(IF r.ok THEN Return(r.s, thr[t].self, thr[t].properties)
                  ELSE Raise(r.s, thr[t].self, thr[t].properties))
    /\ thr' = [thr EXCEPT ![t] = Idle]
    /\ UNCHANGED <<reg, got, grp, _EXTERNAL_CLASSES, registered, resolved, recoverable>>

\* cybox.utils.cache_get(id) by a thread that is not constructing
T_Get(t) ==
    /\ At(t, "idle")
    /\ \E id \in DOMAIN cache : got' = [got EXCEPT ![t] = cache_get(cache, id)]
    /\ UNCHANGED <<heap, props, cache, reg, thr, grp, _EXTERNAL_CLASSES, registered, resolved, recoverable>>

NextConc ==
    \/ CreateProps
    \/ \E t \in Threads :
         \/ T_Call(t)
         \/ T_L97(t)
         \/ T_L98(t)
         \/ T_L99(t)
         \/ T_L100(t)
         \/ T_L128(t)
         \/ T_L130(t)
         \/ T_Get(t)

SpecConc == Init /\ [][NextConc]_vars

(* ===================== construction of a Grouping ===================== *)
\* The declared fields of Grouping, in declaration order (the key order of
\* EXPECTED_GROUPING); context and object_refs are the required ones
\* (test_grouping_required_properties), type, spec_version, id, created and
\* modified have defaults (test_grouping_autogenerated_properties).
GroupingFields ==
    << [name |-> "type",         required |-> FALSE, has_default |-> TRUE],
       [name |-> "spec_version", required |-> FALSE, has_default |-> TRUE],
       [name |-> "id",           required |-> FALSE, has_default |-> TRUE],
       [name |-> "created",      required |-> FALSE, has_default |-> TRUE],
       [name |-> "modified",     required |-> FALSE, has_default |-> TRUE],
       [name |-> "name",         required |-> FALSE, has_default |-> FALSE],
       [name |-> "context",      required |-> TRUE,  has_default |-> FALSE],
       [name |-> "object_refs",  required |-> TRUE,  has_default |-> FALSE] >>

Schema(cls) == GroupingFields

Declared(cls) == {Schema(cls)[k].name : k \in DOMAIN Schema(cls)}

\* keys no field of Grouping declares (test_invalid_kwarg_to_grouping), in
\* sorted order
UndeclaredKeys == <<"my_custom_property", "x_other">>

GROUPING_ID == "grouping--753abcde-3141-5926-ace5-0a810b1ff996"
FAKE_TIME == "2017-01-01T12:34:56.000Z"

\* what the clock returns, read once per construction
NOW == "2026-01-01T00:00:00.000Z"

\* the values a keyword may carry
Sample(key) ==
    CASE key = "type" -> "grouping"
      [] key = "spec_version" -> "2.1"
      [] key = "id" -> GROUPING_ID
      [] key = "created" -> FAKE_TIME
      [] key = "modified" -> FAKE_TIME
      [] key = "name" -> "Harry Potter and the Leet Hackers"
      [] key = "context" -> "suspicious-activity"
      [] key = "object_refs" -> <<"malware--c8d2fae5", "identity--988145ed">>
      [] OTHER -> "foo"

\* the default of a field that has one (a fixed value or a deferred factory:
\* the identifier generator, the clock)
Default(cls, name) ==
    CASE name = "type" -> "grouping"
      [] name = "spec_version" -> "2.1"
      [] name = "id" -> "grouping--00000000-0000-4000-8000-000000000001"
      [] OTHER -> NOW

StartsWith(v, prefix) ==
    Len(v) >= Len(prefix) /\ SubSeq(v, 1, Len(prefix)) = prefix

\* fault variant of Validate: the identifier must equal the prefix
Validate_id_equals_prefix(cls, name, v) ==
    CASE name = "type" ->
           IF v = "grouping" THEN "" ELSE "must equal 'grouping'."
      [] name = "id" ->
           IF v = "grouping--" THEN "" ELSE "must start with 'grouping--'."
      [] OTHER -> ""

\* the validator of a field: the reason of the failure, or "" when the value
\* passes
Validate(cls, name, v) ==
    CASE name = "type" ->
           IF v = "grouping" THEN "" ELSE "must equal 'grouping'."
      [] name = "id" ->
           IF StartsWith(v, "grouping--") THEN ""
           ELSE "must start with 'grouping--'."
      [] OTHER -> ""

Error(kind, cls, properties, prop_name, reason) ==
    [kind |-> kind, cls |-> cls, properties |-> properties,
     prop_name |-> prop_name, reason |-> reason]

RECURSIVE Join(_, _)
Join(seq, sep) ==
    IF seq = <<>> THEN ""
    ELSE IF Len(seq) = 1 THEN seq[1]
    ELSE seq[1] \o sep \o Join(Tail(seq), sep)

\* str(error)
Message(e) ==
    CASE e.kind = "UnexpectedProperties" ->
           "Unexpected properties for " \o e.cls \o ": ("
             \o Join(e.properties, ", ") \o ")."
      [] e.kind = "InvalidPropertyValue" ->
           "Invalid value for " \o e.cls \o " '" \o e.prop_name \o "': " \o e.reason
      [] OTHER -> ""

\* the names of the fields of the schema, in declaration order
FieldNames(cls) == [k \in DOMAIN Schema(cls) |-> Schema(cls)[k].name]

\* fault variant of Assigned: no default is materialized
Assigned_supplied_only(cls, kwargs) ==
    LET names == {n \in DOMAIN kwargs \cap Declared(cls) :
                    Validate(cls, n, kwargs[n]) = ""}
    IN  [n \in names |-> kwargs[n]]

\* assign(owner, raw_value) over every declared field: the values stored
Assigned(cls, kwargs) ==
    LET names == {Schema(cls)[k].name : k \in
                    {j \in DOMAIN Schema(cls) :
                       LET f == Schema(cls)[j]
                       IN  IF f.name \in DOMAIN kwargs
                           THEN Validate(cls, f.name, kwargs[f.name]) = ""
                           ELSE f.has_default}}
    IN  [n \in names |-> IF n \in DOMAIN kwargs THEN kwargs[n] ELSE Default(cls, n)]

\* the validation errors of the assignments
InvalidValues(cls, kwargs) ==
    {Error("InvalidPropertyValue", cls, <<>>, n, Validate(cls, n, kwargs[n])) :
       n \in {m \in DOMAIN kwargs \cap Declared(cls) :
                Validate(cls, m, kwargs[m]) # ""}}

\* fault variant of MissingProperties: only the first missing field is listed
MissingProperties_first_only(cls, values) ==
    LET all == SelectSeq(Schema(cls),
                         LAMBDA f : f.required /\ f.name \notin DOMAIN values)
    IN  IF all = <<>> THEN <<>> ELSE <<all[1].name>>

\* the declared-required-but-unset fields, in declaration order
MissingProperties(cls, values) ==
    LET all == SelectSeq(Schema(cls),
                         LAMBDA f : f.required /\ f.name \notin DOMAIN values)
    IN  [k \in DOMAIN all |-> all[k].name]

\* fault variant of UnexpectedProperties: only the first unknown key is listed
UnexpectedProperties_first_only(cls, kwargs) ==
    LET all == SelectSeq(UndeclaredKeys,
                         LAMBDA k : k \in DOMAIN kwargs /\ k \notin Declared(cls))
    IN  IF all = <<>> THEN <<>> ELSE <<all[1]>>

\* the supplied keys that match no declared field
UnexpectedProperties(cls, kwargs) ==
    SelectSeq(UndeclaredKeys, LAMBDA k : k \in DOMAIN kwargs /\ k \notin Declared(cls))

\* Entity construction: assign every field, then both checks; every error found
\* is reported, and an instance exists only when there is none
Construct(cls, kwargs) ==
    LET values == Assigned(cls, kwargs)
        missing == MissingProperties(cls, values)
        extra == UnexpectedProperties(cls, kwargs)
        errors == InvalidValues(cls, kwargs)
                  \cup (IF missing = <<>> THEN {}
                        ELSE {Error("MissingRequiredProperties", cls, missing, "", "")})
                  \cup (IF extra = <<>> THEN {}
                        ELSE {Error("UnexpectedProperties", cls, extra, "", "")})
    IN  [kwargs |-> kwargs, order |-> <<>>, done |-> TRUE, ok |-> errors = {},
         errors |-> errors, instance |-> IF errors = {} THEN values ELSE <<>>]

(* --------------------- serialization of a Grouping -------------------- *)
\* fault variant of to_canonical_mapping: the keys come out in the order the
\* caller supplied them, the defaulted ones after them
to_canonical_mapping_supply_order(cls, instance, order) ==
    LET keys == SelectSeq(order, LAMBDA k : k \in DOMAIN instance)
                \o SelectSeq(FieldNames(cls),
                      LAMBDA k : k \in DOMAIN instance
                                 /\ k \notin {order[j] : j \in DOMAIN order})
    IN  [k \in DOMAIN keys |-> <<keys[k], instance[keys[k]]>>]

\* to_canonical_mapping(): the set fields as (key, value) pairs in declaration
\* order, unset fields omitted, a sequence value kept as it is stored
to_canonical_mapping(cls, instance, order) ==
    LET keys == SelectSeq(FieldNames(cls), LAMBDA k : k \in DOMAIN instance)
    IN  [k \in DOMAIN keys |-> <<keys[k], instance[keys[k]]>>]

\* entity.serialize(pretty): the text as its opening brace, one item per pair
\* (indented by four columns when pretty) and its closing brace
serialize(cls, instance, order, pretty) ==
    LET cm == to_canonical_mapping(cls, instance, order)
    IN  <<"{">>
        \o [k \in DOMAIN cm |->
              [indent |-> IF pretty THEN "    " ELSE "",
               key |-> cm[k][1], value |-> cm[k][2]]]
        \o <<"}">>

\* the keys of a canonical mapping / of a serialized text, in order
KeysOf(cm) == [k \in DOMAIN cm |-> cm[k][1]]
TextKeys(text) == [k \in 1..(Len(text) - 2) |-> text[k + 1].key]

AllKeys == Declared("Grouping") \cup {UndeclaredKeys[k] : k \in DOMAIN UndeclaredKeys}

\* the keyword arguments of a call
Kwargs(K, type, id) ==
    [k \in K |-> IF k = "type" THEN type ELSE IF k = "id" THEN id ELSE Sample(k)]

Reverse(seq) == [k \in DOMAIN seq |-> seq[Len(seq) + 1 - k]]

\* the keywords K as the caller wrote them: in declaration order, or reversed
SupplyOrder(K, reversed) ==
    LET inOrder == SelectSeq(FieldNames("Grouping") \o UndeclaredKeys,
                             LAMBDA k : k \in K)
    IN  IF reversed THEN Reverse(inOrder) ELSE inOrder

InitGrouping ==
    /\ HeapInit
    /\ RegistryInit
    /\ \E K \in SUBSET AllKeys, type \in {"grouping", "xxx"},
          id \in {GROUPING_ID, "my-prefix--"}, reversed \in BOOLEAN :
         grp = [Pending(Kwargs(K, type, id)) EXCEPT !.order = SupplyOrder(K, reversed)]

\* stix2.v21.Grouping(**kwargs)
NewGrouping ==
    /\ ~grp.done
    /\ grp' = [Construct("Grouping", grp.kwargs) EXCEPT !.order = grp.order]
    /\ UNCHANGED <<heap, props, cache, reg, thr, got,
                   _EXTERNAL_CLASSES, registered, resolved, recoverable>>

NextGrouping == NewGrouping

SpecGrouping == InitGrouping /\ [][NextGrouping]_vars

(* ============== owners, their payloads and related objects ============= *)
\* Objects are built, their properties are reassigned and related objects are
\* added to them, several to one owner.
MaxEntities == 3

\* the payload has an owner that holds it and is the entity the cache returns
\* for the owner's id_
OwnedByRegistered(p) ==
    LET o == props[p].parent
    IN  /\ o # NoObj
        /\ heap[o].live
        /\ heap[o].properties = p
        /\ cache_get(cache, heap[o].id_) = o

\* add_related as above; `recoverable` remembers the reference-form related
\* objects built from a payload that a registered Object owned at the call
AddRelatedMore ==
    \E o \in Objs, related \in Props \cup {NotObjectProperties},
       relationship \in Relationships, inline \in BOOLEAN :
         /\ heap[o].kind = "Object"
         /\ related # NotObjectProperties => Len(heap) < MaxEntities
         /\ AddRelatedCall(o, related, relationship, inline)
         /\ recoverable' =
              IF /\ related # NotObjectProperties
                 /\ ~inline
                 /\ OwnedByRegistered(related)
              THEN recoverable \cup {Len(heap) + 1}
              ELSE recoverable

\* entity.properties = value (line 82: the setter runs the postset hook)
SetProperties ==
    /\ \E o \in Objs, value \in Props \cup {NoProps} :
         /\ heap[o].live /\ heap[o].kind = "Object"
         /\ heap[o].properties # value
         /\ Commit(set_properties(Cur, o, value))
    /\ UNCHANGED <<reg, thr, got, grp, _EXTERNAL_CLASSES, registered, resolved,
                   recoverable>>

NextRelated ==
    \/ CreateProps
    \/ NewObject
    \/ AddRelatedMore
    \/ SetProperties
    \/ CacheClear

SpecRelated == Init /\ [][NextRelated]_vars

(* ================== registration and type resolution ================== *)
AddExternalClass ==
    /\ Len(registered) < MaxRegs
    /\ \E klass \in Klasses, xsi_type \in XsiTypes :
         /\ _EXTERNAL_CLASSES' = add_external_class(_EXTERNAL_CLASSES, klass, xsi_type)
         /\ registered' = Append(registered, [klass |-> klass, xsi_type |-> xsi_type])
    /\ UNCHANGED <<heap, props, cache, reg, thr, got, grp, resolved, recoverable>>

\* the factory resolves the xsi:type of a record being parsed
Resolve ==
    /\ \E key \in XsiTypes, receiver \in Receivers :
         resolved' = [entity_class(_EXTERNAL_CLASSES, receiver, key)
                        EXCEPT !.at = Len(registered)]
    /\ UNCHANGED <<heap, props, cache, reg, thr, got, grp,
                   _EXTERNAL_CLASSES, registered, recoverable>>

NextRegistry ==
    \/ AddExternalClass
    \/ Resolve

SpecRegistry == Init /\ [][NextRegistry]_vars

(* ====================== properties of Spec ============================ *)
RelatedObjs == {i \in Objs : heap[i].kind = "RelatedObject"}

\* the instance the current step has built, if it built one
Built == Len(heap') = Len(heap) + 1
New == heap'[Len(heap')]

\* a step other than cache_clear() (every other step builds an instance or an
\* ObjectProperties, or changes nothing)
NotClear == heap' # heap \/ props' # props \/ DOMAIN cache' = DOMAIN cache

\* C1: constructing a RelatedObject with inline=False from a populated
\* properties value leaves it in reference form: its idref is the id_ that the
\* owner of that value (properties.parent) had when the constructor ran, and
\* its own properties field is unset.
C1_InlineToByReference ==
    [][ (Built /\ New.kind = "RelatedObject" /\ ~New.inline
               /\ New.arg # NoProps /\ New.live)
        => /\ props[New.arg].parent # NoObj
           /\ New.idref = heap[props[New.arg].parent].id_
           /\ New.properties = NoProps ]_vars

C1_Witness ==
    \E i \in RelatedObjs :
        /\ heap[i].live /\ ~heap[i].inline /\ heap[i].arg # NoProps
        /\ heap[i].idref # None /\ heap[i].properties = NoProps
        /\ props[heap[i].arg].parent # NoObj
        /\ heap[i].idref = heap[props[heap[i].arg].parent].id_

\* C2: to_dict of a RelatedObject never mixes the two forms: an instance in
\* reference form (_inline false) emits the key idref, the key relationship
\* exactly when a relationship is set, and nothing else (not its own id, no
\* properties, no related_objects); an inline instance emits the full entity
\* form: every field that is set, the relationship included.
C2_FormsNeverMixed ==
    \A i \in RelatedObjs :
        LET e == heap[i]
            d == to_dict(Cur, i)
        IN  /\ ~e.inline =>
                 /\ DOMAIN d \subseteq {"idref", "relationship"}
                 /\ "idref" \in DOMAIN d /\ d["idref"] = e.idref
                 /\ "relationship" \in DOMAIN d <=> e.relationship # None
            /\ e.inline =>
                 /\ "id" \in DOMAIN d <=> e.id_ # None
                 /\ "idref" \in DOMAIN d <=> e.idref # None
                 /\ "properties" \in DOMAIN d <=> e.properties # NoProps
                 /\ "relationship" \in DOMAIN d <=> e.relationship # None
                 /\ "properties" \in DOMAIN d =>
                        d["properties"] = props[e.properties].payload

C2_Witness ==
    \E i \in RelatedObjs :
        /\ heap[i].live /\ ~heap[i].inline /\ heap[i].arg # NoProps
        /\ heap[i].id_ # None /\ heap[i].relationship # None
        /\ DOMAIN to_dict(Cur, i) = {"idref", "relationship"}

\* C3: resolving a RelatedObject that holds no payload of its own but an idref
\* goes through the identity cache: when an entity was registered under that
\* identifier since the last clear, the result is the properties of that
\* registered instance; when none is registered the outcome is the lookup
\* failure, never a null result.
C3_ResolveByReference ==
    \A i \in RelatedObjs :
        (heap[i].properties = NoProps /\ heap[i].idref # None) =>
            IF heap[i].idref \in DOMAIN reg
            THEN get_properties(Cur, i) = heap[reg[heap[i].idref]].properties
            ELSE get_properties(Cur, i) = UnresolvedReference

C3_Witness ==
    \E i \in RelatedObjs :
        /\ heap[i].live /\ ~heap[i].inline /\ heap[i].arg # NoProps
        /\ heap[i].idref # None /\ heap[i].idref \notin DOMAIN cache
        /\ \E o \in Objs : heap[o].id_ = heap[i].idref /\ heap[o].properties # NoProps
        /\ get_properties(Cur, i) = UnresolvedReference

\* C4 as claimed: every related reference holds exactly one of properties and
\* idref.
C4_ExactlyOne ==
    \A i \in RelatedObjs :
        heap[i].live => (heap[i].properties # NoProps) # (heap[i].idref # None)

\* C4, amended: a related reference in reference form (built with
\* inline=False, directly or by add_related) never holds an embedded
\* properties value, so it never holds both alternatives.
C4_ReferenceFormHasNoPayload ==
    \A i \in RelatedObjs :
        (heap[i].live /\ ~heap[i].inline) => heap[i].properties = NoProps

C4_Witness ==
    \E i \in RelatedObjs :
        /\ heap[i].live /\ ~heap[i].inline /\ heap[i].arg # NoProps
        /\ heap[i].properties = NoProps

\* C5 as claimed: an entity is registered under its identifier when the
\* identifier is assigned, and no step other than a cache clear removes or
\* replaces it.
C5_NeverEvicted ==
    [][ /\ (Built /\ New.id_ # None) =>
              (New.id_ \in DOMAIN cache' /\ cache'[New.id_] = Len(heap'))
        /\ NotClear => \A k \in DOMAIN cache :
              k \in DOMAIN cache' /\ cache'[k] = cache[k] ]_vars

\* C5, amended: an entity is registered under its identifier when the
\* identifier is assigned; until a cache clear the identifier stays
\* registered, and the entry changes only by being overwritten with an
\* entity that is assigned the same identifier later.
C5_RegisteredUntilOverwritten ==
    [][ /\ (Built /\ New.id_ # None) =>
              (New.id_ \in DOMAIN cache' /\ cache'[New.id_] = Len(heap'))
        /\ NotClear => \A k \in DOMAIN cache :
              /\ k \in DOMAIN cache'
              /\ \/ cache'[k] = cache[k]
                 \/ Built /\ cache'[k] = Len(heap') /\ New.id_ = k ]_vars

C5_Witness ==
    \E i, j \in Objs :
        /\ i < j /\ heap[i].id_ = heap[j].id_ /\ heap[i].id_ \in DOMAIN cache
        /\ cache[heap[i].id_] = j

\* C6: the cache answers get(identifier) with the entity of the most recent
\* put under that identifier since the last clear, signals not-found when
\* there was none, and is empty after clear (reg is the record of the puts).
IdUniverse == UserIds \cup {create_id(i) : i \in 1..MaxObjs}

C6_LastWriteWins ==
    /\ DOMAIN cache = DOMAIN reg
    /\ \A id \in IdUniverse :
          cache_get(cache, id) = IF id \in DOMAIN reg THEN reg[id] ELSE CacheMiss

C6_Witness ==
    /\ Len(heap) >= 2
    /\ heap[1].id_ # None /\ cache_get(cache, heap[1].id_) = CacheMiss
    /\ heap[2].id_ # None /\ cache_get(cache, heap[2].id_) = 2

\* C7: a construction that fails leaves the identity cache as it was before
\* the construction started.
C7_FailedConstructionLeavesCache ==
    [][ (Built /\ ~New.live) =>
            /\ DOMAIN cache' = DOMAIN cache
            /\ \A k \in DOMAIN cache : cache'[k] = cache[k] ]_vars

\* C12: round trip: parsing the mapping that a successfully constructed
\* entity serializes to (from_dict of to_dict) gives an instance whose mapping
\* equals the original's, for objects and for related objects in either form.
RoundTrips(i) ==
    LET m == to_dict(Cur, i)
        r == from_mapping(Cur, heap[i].kind, m)
    IN  r.self # NoObj /\ to_dict(r.s, r.self) = m

C12_RoundTrip == \A i \in Objs : heap[i].live => RoundTrips(i)

\* an instance that came out of RelatedObject.from_dict: the parser sets
\* related_objects from the record, where the model's records have none, while
\* every constructor installs a RelatedObjects list
Parsed(i) == heap[i].kind = "RelatedObject" /\ heap[i].live /\ ~heap[i].has_related

\* C14: a parsed related-object record with no idref and a populated properties
\* value is classified Inline, one with an idref and no properties value is
\* classified ByReference, and the form decides the serialization: Inline the
\* full entity form, ByReference only idref and relationship.
C14_ParsedForm ==
    \A i \in Objs : Parsed(i) =>
        LET e == heap[i]
            d == to_dict(Cur, i)
        IN  /\ (e.idref = None /\ e.properties # NoProps) => e.inline
            /\ (e.idref # None /\ e.properties = NoProps) => ~e.inline
            /\ e.inline => d = Entity_to_dict(Cur, i)
            /\ ~e.inline => DOMAIN d \subseteq {"idref", "relationship"}

(* ==================== properties of SpecConc ========================== *)
\* the fields of an entity that a reader of the cache can see
Fields(e) ==
    <<e.id_, e.idref, e.properties, e.relationship, e.related_objects,
      e.has_related>>

\* C8: an entity that a thread obtained from the identity cache never has a
\* field changed afterwards (by another thread's constructor still running):
\* cache entries are immutable once written.
C8_CacheEntriesImmutable ==
    [][ \A t \in Threads :
          got[t] \in Objs => Fields(heap'[got[t]]) = Fields(heap[got[t]]) ]_vars

(* =================== properties of SpecGrouping ======================= *)
Constructed == grp.done

ErrorsOf(kind) == {e \in grp.errors : e.kind = kind}

\* the required fields of Grouping the call left out, in declaration order
Omitted ==
    (IF "context" \in DOMAIN grp.kwargs THEN <<>> ELSE <<"context">>)
    \o (IF "object_refs" \in DOMAIN grp.kwargs THEN <<>> ELSE <<"object_refs">>)

\* C9: a construction that omits required fields fails with a
\* missing-properties error that carries the type and lists exactly the omitted
\* required fields, all of them, in declaration order (nothing supplied:
\* context, object_refs); a field with a default is never listed, and nothing
\* is reported missing when every required field is supplied.
C9_MissingRequiredProperties ==
    Constructed =>
        /\ Omitted # <<>> =>
             /\ ~grp.ok /\ grp.instance = <<>>
             /\ ErrorsOf("MissingRequiredProperties")
                  = {Error("MissingRequiredProperties", "Grouping", Omitted, "", "")}
        /\ Omitted = <<>> => ErrorsOf("MissingRequiredProperties") = {}
        /\ \A e \in ErrorsOf("MissingRequiredProperties") :
             \A k \in DOMAIN e.properties :
                 e.properties[k] \notin {"type", "spec_version", "id", "created", "modified"}
        /\ grp.kwargs = <<>> =>
             \E e \in grp.errors : e.properties = <<"context", "object_refs">>

C9_Witness ==
    /\ Constructed
    /\ DOMAIN grp.kwargs = {"name"}
    /\ \E e \in grp.errors :
          e.kind = "MissingRequiredProperties" /\ e.properties = <<"context", "object_refs">>

\* the supplied keys that Grouping does not declare
Undeclared ==
    DOMAIN grp.kwargs \ {"type", "spec_version", "id", "created", "modified",
                         "name", "context", "object_refs"}

\* C10: a construction given keys that match no declared field fails with an
\* unexpected-properties error that carries the type and names exactly the
\* undeclared keys; its message is "Unexpected properties for <Type>: (<key>).";
\* no instance is produced; nothing is reported unexpected otherwise.
C10_UnexpectedProperties ==
    Constructed =>
        /\ Undeclared # {} =>
             /\ ~grp.ok /\ grp.instance = <<>>
             /\ \E e \in grp.errors :
                  /\ ErrorsOf("UnexpectedProperties") = {e}
                  /\ e.cls = "Grouping"
                  /\ {e.properties[k] : k \in DOMAIN e.properties} = Undeclared
                  /\ Len(e.properties) = Cardinality(Undeclared)
                  /\ Undeclared = {"my_custom_property"} =>
                       Message(e) = "Unexpected properties for Grouping: (my_custom_property)."
        /\ Undeclared = {} => ErrorsOf("UnexpectedProperties") = {}

C10_Witness ==
    /\ Constructed
    /\ DOMAIN grp.kwargs = {"name", "context", "object_refs", "my_custom_property"}
    /\ \E e \in grp.errors : e.properties = <<"my_custom_property">>
    /\ grp.instance = <<>>

\* C11: a supplied value that fails its field's validator yields an
\* invalid-value error that carries the type, the field name and the reason:
\* a type other than 'grouping' gives "must equal 'grouping'.", an id that
\* does not start with "grouping--" gives "must start with 'grouping--'.";
\* a value that passes its validator never yields this error.
InvalidFor(field) ==
    {e \in ErrorsOf("InvalidPropertyValue") : e.prop_name = field}

C11_InvalidPropertyValue ==
    Constructed =>
        /\ ("type" \in DOMAIN grp.kwargs /\ grp.kwargs["type"] = "xxx") =>
             /\ ~grp.ok /\ grp.instance = <<>>
             /\ \E e \in grp.errors :
                  /\ InvalidFor("type") = {e}
                  /\ e.cls = "Grouping"
                  /\ e.reason = "must equal 'grouping'."
                  /\ Message(e) = "Invalid value for Grouping 'type': must equal 'grouping'."
        /\ ("id" \in DOMAIN grp.kwargs /\ grp.kwargs["id"] = "my-prefix--") =>
             /\ ~grp.ok /\ grp.instance = <<>>
             /\ \E e \in grp.errors :
                  /\ InvalidFor("id") = {e}
                  /\ e.cls = "Grouping"
                  /\ e.reason = "must start with 'grouping--'."
                  /\ Message(e) = "Invalid value for Grouping 'id': must start with 'grouping--'."
        /\ ("type" \notin DOMAIN grp.kwargs \/ grp.kwargs["type"] = "grouping") =>
             InvalidFor("type") = {}
        /\ ("id" \notin DOMAIN grp.kwargs \/ grp.kwargs["id"] = GROUPING_ID) =>
             InvalidFor("id") = {}
        /\ \A e \in ErrorsOf("InvalidPropertyValue") : e.prop_name \in {"type", "id"}

C11_Witness ==
    /\ Constructed
    /\ DOMAIN grp.kwargs = {"type", "id", "name", "context", "object_refs"}
    /\ grp.kwargs["type"] = "xxx" /\ grp.kwargs["id"] = GROUPING_ID
    /\ \E e \in grp.errors :
          /\ grp.errors = {e}
          /\ e.prop_name = "type" /\ e.reason = "must equal 'grouping'."

\* C13: serialization is deterministic and ordered: whatever the order of the
\* keywords at construction, the canonical mapping lists the keys in declaration
\* order (type, spec_version, id, created, modified, name, context,
\* object_refs), omits an unset optional field (name), keeps the elements of
\* object_refs in their input order, and pretty and compact text have the same
\* key order.
ExpectedKeys ==
    <<"type", "spec_version", "id", "created", "modified">>
    \o (IF "name" \in DOMAIN grp.kwargs THEN <<"name">> ELSE <<>>)
    \o <<"context", "object_refs">>

C13_DeclarationOrder ==
    (Constructed /\ grp.ok) =>
        LET cm == to_canonical_mapping("Grouping", grp.instance, grp.order)
        IN  /\ KeysOf(cm) = ExpectedKeys
            /\ cm[Len(cm)][2] = grp.kwargs["object_refs"]
            /\ \A k \in DOMAIN cm :
                 cm[k][1] \in DOMAIN grp.kwargs => cm[k][2] = grp.kwargs[cm[k][1]]
            /\ TextKeys(serialize("Grouping", grp.instance, grp.order, TRUE)) = ExpectedKeys
            /\ TextKeys(serialize("Grouping", grp.instance, grp.order, FALSE)) = ExpectedKeys

C13_Witness ==
    /\ Constructed /\ grp.ok
    /\ grp.order = <<"object_refs", "context", "modified", "created", "id", "type">>
    /\ TextKeys(serialize("Grouping", grp.instance, grp.order, TRUE))
         = <<"type", "spec_version", "id", "created", "modified", "context", "object_refs">>

\* the declared fields of Grouping that have a default
Defaulted ==
    {GroupingFields[k].name : k \in {j \in DOMAIN GroupingFields :
                                       GroupingFields[j].has_default}}

\* C16: a field that has a default and is not supplied at construction gets
\* the default, so after a successful construction every defaulted field holds
\* a value (Grouping: type 'grouping', id a generated 'grouping--<uuid>',
\* created and modified the same construction time; Object: id_ a generated
\* identifier), and a supplied value is stored unchanged.
C16_DefaultsMaterialized ==
    /\ (Constructed /\ grp.ok) =>
         LET v == grp.instance
             given == DOMAIN grp.kwargs
         IN  /\ \A n \in Defaulted :
                  /\ n \in DOMAIN v
                  /\ v[n] # None
                  /\ n \in given => v[n] = grp.kwargs[n]
             /\ v["type"] = "grouping"
             /\ "id" \notin given =>
                  /\ StartsWith(v["id"], "grouping--")
                  /\ Len(v["id"]) = Len("grouping--") + 36
             /\ {"created", "modified"} \cap given = {} =>
                  v["created"] = NOW /\ v["modified"] = v["created"]
    /\ \A id_ \in OptId :
         LET s == Object__init__(Alloc(Cur, "Object", TRUE), Len(heap) + 1,
                                 NoProps, id_, None)
             e == s.heap[Len(heap) + 1]
         IN  /\ e.id_ # None
             /\ id_ # None => e.id_ = id_
             /\ id_ = None => e.id_ = create_id(Len(heap) + 1)

C16_Witness ==
    /\ Constructed /\ grp.ok
    /\ DOMAIN grp.kwargs = {"created", "context", "object_refs"}
    /\ grp.instance["created"] = FAKE_TIME
    /\ grp.instance["modified"] = NOW
    /\ grp.instance["id"] = Default("Grouping", "id")

(* =================== properties of SpecRelated ======================== *)
\* a call with something that is not an ObjectProperties raises ValueError and
\* changes nothing at all
ValueErrorChangesNothing ==
    \A o \in Objs, relationship \in Relationships, inline \in BOOLEAN :
        LET r == add_related(Cur, o, NotObjectProperties, relationship, inline)
        IN  ~r.ok /\ r.s = Cur

\* the step has put exactly one new, finished RelatedObject at the end of the
\* related_objects of o and has left every other list alone
AppendedTo(o) ==
    /\ Built
    /\ New.kind = "RelatedObject" /\ New.live
    /\ heap'[o].related_objects = Append(heap[o].related_objects, Len(heap'))
    /\ \A j \in Objs \ {o} : heap'[j].related_objects = heap[j].related_objects

\* the step has appended nothing; the instance whose construction raised is
\* left behind unfinished, registered in the cache under its generated id_
NothingAppended ==
    /\ Built
    /\ ~New.live
    /\ \A j \in Objs : heap'[j].related_objects = heap[j].related_objects
    /\ cache' = (New.id_ :> Len(heap')) @@ cache

\* C17 as claimed: add_related with a value that is not an ObjectProperties
\* fails before anything is built, related_objects and the cache unchanged; with
\* an ObjectProperties it appends exactly one new RelatedObject at the end of
\* related_objects, the earlier elements and their order unchanged.
C17_AppendsExactlyOne ==
    /\ []ValueErrorChangesNothing
    /\ [][ \A o \in Objs, related \in Props, relationship \in Relationships,
              inline \in BOOLEAN :
             (Built /\ AddRelatedCall(o, related, relationship, inline))
                 => AppendedTo(o) ]_vars

\* C17, amended: as claimed, except that a call with inline=False and an
\* ObjectProperties that has no owner (parent None) raises inside the
\* RelatedObject constructor: nothing is appended, and the unfinished instance
\* stays in the cache.
C17_AppendsUnlessOwnerless ==
    /\ []ValueErrorChangesNothing
    /\ [][ \A o \in Objs, related \in Props, relationship \in Relationships,
              inline \in BOOLEAN :
             (Built /\ AddRelatedCall(o, related, relationship, inline))
                 => IF ~inline /\ props[related].parent = NoObj
                    THEN NothingAppended
                    ELSE AppendedTo(o) ]_vars

C17_Witness ==
    \E o \in Objs :
        /\ heap[o].live
        /\ Len(heap[o].related_objects) = 2
        /\ heap[o].related_objects[1] < heap[o].related_objects[2]
        /\ \A k \in 1..2 : heap[heap[o].related_objects[k]].live

\* entity i holds the payload p inline in the heap h
HoldsInline(h, i, p) ==
    /\ h[i].live
    /\ h[i].properties = p
    /\ h[i].kind = "Object" \/ h[i].inline

\* the step builds a reference-form RelatedObject
BuildsReference == Built /\ New.kind = "RelatedObject" /\ ~New.inline

EntryKept(r) ==
    /\ heap[r].idref \in DOMAIN cache
    /\ cache[heap[r].idref] < r

RegistrationsOf(key) ==
    {k \in 1..resolved.at : registered[k].xsi_type = key}

LastRegistered(key) ==
    registered[CHOOSE k \in RegistrationsOf(key) :
                   \A j \in RegistrationsOf(key) : j <= k].klass

\* C15: after any sequence of add_external_class registrations, resolving a
\* discriminator returns the class registered (last) for exactly that
\* discriminator, and resolving one that was never registered raises an error
\* that names the unrecognized discriminator and yields no class.
C15_RegistryDispatch ==
    resolved.called =>
        IF RegistrationsOf(resolved.key) # {}
        THEN resolved.raised = None /\ resolved.value = LastRegistered(resolved.key)
        ELSE /\ resolved.raised # None
             /\ resolved.names = resolved.key
             /\ resolved.value = None

====
